---- MODULE Spec2Model ----
(***************************************************************************)
(* Model of the interactive ETL orchestrator of mini_lld_project:          *)
(* main_cli.py (menu loop, phases, scheduler session), data_connector.py   *)
(* (source loader, staging and final writers) and data_transformer.py      *)
(* (clean / filter / aggregate operators).                                 *)
(*                                                                         *)
(* Representation of pandas objects                                        *)
(*   cell value   <<"s", chars>>  a text value, chars a sequence of        *)
(*                                one-character strings                    *)
(*                <<"n", p, q>>   the number p/q (q > 0, lowest terms)     *)
(*                <<"z">>         a null (NaN / NA)                        *)
(*   column name  a sequence of parts; <<"amt","sum">> is "amt_sum"        *)
(*   DataFrame    [cols, kinds, rows]; kinds are the dtypes "object",      *)
(*                "string" (pandas StringDtype) and "num"                  *)
(***************************************************************************)
EXTENDS Integers, Sequences, FiniteSets, TLC

----------------------------------------------------------------------------
(* Generic sequence helpers                                                *)

Range(s) == {s[i] : i \in 1..Len(s)}

Contains(s, x) == \E i \in 1..Len(s) : s[i] = x

IndexOf(s, x) == CHOOSE i \in 1..Len(s) : s[i] = x /\ \A j \in 1..(i - 1) : s[j] # x

RECURSIVE Flatten(_)
Flatten(ss) == IF ss = <<>> THEN <<>> ELSE Head(ss) \o Flatten(Tail(ss))

\* list(dict.fromkeys(seq)) and _dedupe: first occurrences, in order
RECURSIVE Dedupe(_)
Dedupe(s) ==
    IF s = <<>> THEN <<>>
    ELSE LET r == Dedupe(SubSeq(s, 1, Len(s) - 1))
             x == s[Len(s)]
         IN IF Contains(r, x) THEN r ELSE Append(r, x)

HasDuplicates(s) == \E i, j \in 1..Len(s) : i < j /\ s[i] = s[j]

Abs(i) == IF i < 0 THEN -i ELSE i

RECURSIVE GCD(_, _)
GCD(a, b) == IF b = 0 THEN a ELSE GCD(b, a % b)

----------------------------------------------------------------------------
(* Cell values                                                             *)

S(chars) == <<"s", chars>>

Q(p, q) == LET g == GCD(Abs(p), q) IN <<"n", p \div g, q \div g>>

N(i) == <<"n", i, 1>>

NaN == <<"z">>

IsNull(v) == v[1] = "z"
IsText(v) == v[1] = "s"
IsNum(v) == v[1] = "n"

\* code points, as far as the order of str comparison needs them
CharOrd(c) ==
    CASE c = " " -> 32 [] c = "0" -> 48 [] c = "1" -> 49 [] c = "2" -> 50
      [] c = "3" -> 51 [] c = "4" -> 52 [] c = "5" -> 53 [] c = "6" -> 54
      [] c = "7" -> 55 [] c = "8" -> 56 [] c = "9" -> 57 [] c = "<" -> 60
      [] c = ">" -> 62 [] c = "A" -> 65 [] c = "B" -> 66 [] c = "N" -> 78
      [] c = "a" -> 97 [] c = "b" -> 98 [] c = "n" -> 110 [] c = "x" -> 120

IsSpace(c) == c = " "
IsDigit(c) == c \in {"0", "1", "2", "3", "4", "5", "6", "7", "8", "9"}
IsLowerCh(c) == c \in {"a", "b", "n", "x"}
IsUpperCh(c) == c \in {"A", "B", "N"}
IsCased(c) == IsLowerCh(c) \/ IsUpperCh(c)

LowerCh(c) == CASE c = "A" -> "a" [] c = "B" -> "b" [] c = "N" -> "n" [] OTHER -> c
UpperCh(c) == CASE c = "a" -> "A" [] c = "b" -> "B" [] c = "n" -> "N" [] OTHER -> c

\* str.lower / str.upper
StrLower(cs) == [i \in 1..Len(cs) |-> LowerCh(cs[i])]
StrUpper(cs) == [i \in 1..Len(cs) |-> UpperCh(cs[i])]

\* str.title: a cased character is upper-cased after an uncased one (or at
\* the start) and lower-cased after a cased one
StrTitle(cs) ==
    [i \in 1..Len(cs) |->
        IF i > 1 /\ IsCased(cs[i - 1]) THEN LowerCh(cs[i]) ELSE UpperCh(cs[i])]

\* str.strip
RECURSIVE LStrip(_)
LStrip(cs) == IF cs # <<>> /\ IsSpace(Head(cs)) THEN LStrip(Tail(cs)) ELSE cs

RECURSIVE RStrip(_)
RStrip(cs) ==
    IF cs # <<>> /\ IsSpace(cs[Len(cs)]) THEN RStrip(SubSeq(cs, 1, Len(cs) - 1)) ELSE cs

StrStrip(cs) == RStrip(LStrip(cs))

\* .str.replace(r"\s+", " ", regex=True): every whitespace run becomes one space
RECURSIVE CollapseSpaces(_)
CollapseSpaces(cs) ==
    IF cs = <<>> THEN <<>>
    ELSE IF IsSpace(Head(cs))
         THEN <<" ">> \o CollapseSpaces(LStrip(cs))
         ELSE <<Head(cs)>> \o CollapseSpaces(Tail(cs))

\* decimal digits of a natural number
DigitChar == <<"0", "1", "2", "3", "4", "5", "6", "7", "8", "9">>

RECURSIVE NatChars(_)
NatChars(n) ==
    IF n < 10 THEN <<DigitChar[n + 1]>> ELSE Append(NatChars(n \div 10), DigitChar[(n % 10) + 1])

RECURSIVE DigitsValue(_)
DigitsValue(cs) ==
    IF cs = <<>> THEN 0
    ELSE 10 * DigitsValue(SubSeq(cs, 1, Len(cs) - 1)) + (IndexOf(DigitChar, cs[Len(cs)]) - 1)

\* order of two texts (code point order), of two numbers, of two cells of one
\* column; a null sorts last (groupby(..., dropna=False) puts the NaN group last)
RECURSIVE CharsLess(_, _)
CharsLess(a, b) ==
    IF b = <<>> THEN FALSE
    ELSE IF a = <<>> THEN TRUE
    ELSE IF Head(a) = Head(b) THEN CharsLess(Tail(a), Tail(b))
    ELSE CharOrd(Head(a)) < CharOrd(Head(b))

NumLess(a, b) == a[2] * b[3] < b[2] * a[3]

ValueLess(a, b) ==
    IF IsNull(a) THEN FALSE
    ELSE IF IsNull(b) THEN TRUE
    ELSE IF IsNum(a) /\ IsNum(b) THEN NumLess(a, b)
    ELSE IF IsText(a) /\ IsText(b) THEN CharsLess(a[2], b[2])
    ELSE IsNum(a)

RECURSIVE KeyLess(_, _)
KeyLess(a, b) ==
    IF a = <<>> \/ b = <<>> THEN FALSE
    ELSE IF Head(a) = Head(b) THEN KeyLess(Tail(a), Tail(b))
    ELSE ValueLess(Head(a), Head(b))

\* a finite set of group keys in increasing order
SortedKeys(set) ==
    [i \in 1..Cardinality(set) |->
        CHOOSE x \in set : Cardinality({y \in set : KeyLess(y, x)}) = i - 1]

----------------------------------------------------------------------------
(* DataFrames                                                              *)

\* pd.DataFrame(): what load_source_data returns on every failure
NoColsDF == [cols |-> <<>>, kinds |-> <<>>, rows |-> <<>>]

\* DataFrame.empty: some axis has length 0
df_empty(df) == Len(df.cols) = 0 \/ Len(df.rows) = 0

ColPos(df, c) == IndexOf(df.cols, c)

Column(df, c) == [i \in 1..Len(df.rows) |-> df.rows[i][ColPos(df, c)]]

KindOf(df, c) == df.kinds[ColPos(df, c)]

ColsOfKinds(df, ks) ==
    LET idx == SelectSeq([i \in 1..Len(df.cols) |-> i], LAMBDA i : df.kinds[i] \in ks)
    IN [j \in 1..Len(idx) |-> df.cols[idx[j]]]

\* _dtype_buckets; read_csv and read_sql_query produce no datetime and no
\* category column, and no operator creates one, so those buckets are empty
str_cols(df) == Dedupe(ColsOfKinds(df, {"object", "string"}))
num_cols(df) == Dedupe(ColsOfKinds(df, {"num"}))
dt_cols(df) == <<>>
cat_cols(df) == <<>>

\* _prompt_select_columns: what the prompt loop can return for the answers
\* typed. No candidates: [] without prompting. Otherwise 'skip' (or an empty
\* answer when not required) gives [], and the loop repeats until
\* _parse_selection yields a non-empty list of distinct candidates (cut to
\* its first element when not allow_multi)
prompt_select_columns(candidates, allow_multi, answers) ==
    IF candidates = <<>> THEN {<<>>}
    ELSE {<<>>} \cup
         {IF allow_multi THEN a ELSE SubSeq(a, 1, 1) :
            a \in {b \in answers : b # <<>> /\ ~HasDuplicates(b)
                                   /\ \A i \in 1..Len(b) : Contains(candidates, b[i])}}

----------------------------------------------------------------------------
(* clean_names                                                             *)

\* casing = {"1": "title", "2": "lower", "3": "upper"}.get(casing_inp, "title")
CasingOf(casing_inp) ==
    CASE casing_inp = "1" -> "title"
      [] casing_inp = "2" -> "lower"
      [] casing_inp = "3" -> "upper"
      [] OTHER -> "title"

\* an _apply_casing whose title mode swapped the case of every letter
apply_casing_swaps(cs, mode) ==
    CASE mode = "title" -> [i \in 1..Len(cs) |->
                              IF IsUpperCh(cs[i]) THEN LowerCh(cs[i]) ELSE UpperCh(cs[i])]
      [] mode = "lower" -> StrLower(cs)
      [] mode = "upper" -> StrUpper(cs)
      [] OTHER -> cs

\* _apply_casing on one non-null value
apply_casing(cs, mode) ==
    CASE mode = "title" -> StrTitle(cs)
      [] mode = "lower" -> StrLower(cs)
      [] mode = "upper" -> StrUpper(cs)
      [] OTHER -> cs

\* .astype("string") of one cell: a null stays NA, an integer becomes its digits
AsStringDtype(v) ==
    IF IsNum(v) /\ v[3] = 1 /\ v[2] >= 0 THEN S(NatChars(v[2])) ELSE v

\* one cell through .astype("string").str.normalize("NFKC")
\* .str.replace(r"\s+", " ").str.strip() and _apply_casing; the characters of
\* the model are their own NFKC form; nulls are skipped by every .str method
\* and by the non_null_mask
CleanCell(v, casing) ==
    LET w == AsStringDtype(v)
    IN IF IsText(w) THEN S(apply_casing(StrStrip(CollapseSpaces(w[2])), casing)) ELSE w

CleanColumns(df, selected, casing) ==
    [cols  |-> df.cols,
     kinds |-> [j \in 1..Len(df.cols) |->
                  IF Contains(selected, df.cols[j]) THEN "string" ELSE df.kinds[j]],
     rows  |-> [i \in 1..Len(df.rows) |->
                  [j \in 1..Len(df.cols) |->
                      IF Contains(selected, df.cols[j])
                      THEN CleanCell(df.rows[i][j], casing)
                      ELSE df.rows[i][j]]]]

\* clean_names(df, automated): selected_inp is the answer of the column prompt,
\* casing_inp the answer of the casing prompt (both unused when automated)
clean_names(df, automated, selected_inp, casing_inp) ==
    IF str_cols(df) = <<>> THEN df
    ELSE LET selected ==
                 IF automated
                 THEN IF Contains(df.cols, <<"name">>)
                      THEN << <<"name">> >>
                      ELSE SubSeq(str_cols(df), 1, 1)
                 ELSE selected_inp
             casing == IF automated THEN "title" ELSE CasingOf(casing_inp)
         IN IF selected = <<>> THEN df ELSE CleanColumns(df, selected, casing)

\* the message clean_names ends with: nothing to clean (lines with
\* "No text columns" / "No columns selected") or the cleaned frame shown
clean_outcome(df, automated, selected_inp) ==
    IF str_cols(df) = <<>> THEN "no_text_columns"
    ELSE IF ~automated /\ selected_inp = <<>> THEN "no_column"
    ELSE "cleaned"

\* df.dropna(subset=[c])
dropna(df, c) ==
    [df EXCEPT !.rows = SelectSeq(df.rows, LAMBDA r : ~IsNull(r[ColPos(df, c)]))]

----------------------------------------------------------------------------
(* filter_data                                                             *)

\* float(value) succeeds: the model's alphabet allows digit strings and "nan"
FloatParses(cs) ==
    \/ cs # <<>> /\ \A i \in 1..Len(cs) : IsDigit(cs[i])
    \/ StrLower(cs) = <<"n", "a", "n">>

FloatOf(cs) == IF \A i \in 1..Len(cs) : IsDigit(cs[i]) THEN N(DigitsValue(cs)) ELSE NaN

\* .astype(str) of one cell: NaN prints as "nan", pd.NA as "<NA>"
AsStr(v, kind) ==
    IF IsText(v) THEN v[2]
    ELSE IF IsNull(v) THEN (IF kind = "string" THEN <<"<", "N", "A", ">">> ELSE <<"n", "a", "n">>)
    ELSE IF v[3] = 1 /\ v[2] >= 0 THEN NatChars(v[2]) ELSE <<>>

\* the rows kept by lines 213-226
FilterMask(df, col, value) ==
    IF KindOf(df, col) = "num"
    THEN LET val == FloatOf(value)
         IN [i \in 1..Len(df.rows) |->
                LET v == df.rows[i][ColPos(df, col)]
                IN IsNum(v) /\ IsNum(val) /\ v = val]
    ELSE [i \in 1..Len(df.rows) |->
             StrLower(StrStrip(AsStr(df.rows[i][ColPos(df, col)], KindOf(df, col))))
                 = StrLower(value)]

\* a filter_data whose ValueError branch returned the frame without its rows
filter_data_drops_on_error(df, col_list, value_inp) ==
    IF col_list = <<>> \/ StrStrip(value_inp) = <<>> THEN df
    ELSE IF KindOf(df, col_list[1]) = "num" /\ ~FloatParses(StrStrip(value_inp))
    THEN [df EXCEPT !.rows = <<>>]
    ELSE LET mask == FilterMask(df, col_list[1], StrStrip(value_inp))
             keep == SelectSeq([i \in 1..Len(df.rows) |-> i], LAMBDA i : mask[i])
         IN [df EXCEPT !.rows = [k \in 1..Len(keep) |-> df.rows[keep[k]]]]

\* a filter_data that returned only the column it compared
filter_data_projects(df, col_list, value_inp) ==
    IF col_list = <<>> \/ StrStrip(value_inp) = <<>> THEN df
    ELSE IF KindOf(df, col_list[1]) = "num" /\ ~FloatParses(StrStrip(value_inp)) THEN df
    ELSE LET mask == FilterMask(df, col_list[1], StrStrip(value_inp))
             keep == SelectSeq([i \in 1..Len(df.rows) |-> i], LAMBDA i : mask[i])
             p == ColPos(df, col_list[1])
         IN [cols  |-> <<col_list[1]>>,
             kinds |-> <<df.kinds[p]>>,
             rows  |-> [k \in 1..Len(keep) |-> <<df.rows[keep[k]][p]>>]]

\* filter_data(df): col_list is the answer of the column prompt, value_inp
\* the text typed at the value prompt. Every way out that is not the filtered
\* frame returns df itself
filter_data(df, col_list, value_inp) ==
    IF col_list = <<>> THEN df
    ELSE LET col == col_list[1]
             value == StrStrip(value_inp)
         IN IF value = <<>> THEN df
            ELSE IF KindOf(df, col) = "num" /\ ~FloatParses(value) THEN df
            ELSE LET mask == FilterMask(df, col, value)
                     keep == SelectSeq([i \in 1..Len(df.rows) |-> i], LAMBDA i : mask[i])
                 IN [df EXCEPT !.rows = [k \in 1..Len(keep) |-> df.rows[keep[k]]]]

\* the message filter_data ends with: the three "Skipping filter" branches
\* (no column, empty input, ValueError of float(value)) or the filter applied
filter_outcome(df, col_list, value_inp) ==
    IF col_list = <<>> THEN "no_column"
    ELSE IF StrStrip(value_inp) = <<>> THEN "empty_input"
    ELSE IF KindOf(df, col_list[1]) = "num" /\ ~FloatParses(StrStrip(value_inp)) THEN "value_error"
    ELSE "filtered"

----------------------------------------------------------------------------
(* aggregate_data                                                          *)

\* likely_groupers and ordered_candidates (lines 244, 256)
likely_groupers(df) ==
    IF Dedupe(cat_cols(df) \o str_cols(df)) # <<>>
    THEN Dedupe(cat_cols(df) \o str_cols(df))
    ELSE df.cols

ordered_candidates(df) == Dedupe(num_cols(df) \o dt_cols(df) \o str_cols(df))

\* valid_funcs of one column (lines 277-282)
valid_funcs(df, col) ==
    IF Contains(num_cols(df), col)
    THEN <<"sum", "mean", "median", "min", "max", "count", "nunique">>
    ELSE IF Contains(dt_cols(df), col)
    THEN <<"min", "max", "count", "nunique">>
    ELSE <<"count", "nunique", "mode">>

\* the functions kept for one column (lines 287-298): the default when the
\* answer is empty, then the valid ones among those named
agg_fns(df, col, funcs_inp) ==
    LET funcs == IF funcs_inp # <<>> THEN funcs_inp
                 ELSE IF Contains(num_cols(df), col) THEN <<"sum">> ELSE <<"count">>
    IN SelectSeq(funcs, LAMBDA f : Contains(valid_funcs(df, col), f))

\* agg_map as the list of its items, in insertion order (lines 276-304);
\* funcs_of maps each column of agg_cols to the list typed for it
agg_map(df, agg_cols, funcs_of) ==
    LET items == [i \in 1..Len(agg_cols) |-> <<agg_cols[i], agg_fns(df, agg_cols[i], funcs_of[agg_cols[i]])>>]
    IN SelectSeq(items, LAMBDA it : it[2] # <<>>)

AddQ(a, b) == Q(a[2] * b[3] + b[2] * a[3], a[3] * b[3])

RECURSIVE SumQ(_)
SumQ(vs) == IF vs = <<>> THEN N(0) ELSE AddQ(Head(vs), SumQ(Tail(vs)))

\* the values of a sequence in increasing order, repeated values kept
SortedVals(vs) ==
    [i \in 1..Len(vs) |->
        CHOOSE x \in Range(vs) :
            /\ Cardinality({j \in 1..Len(vs) : ValueLess(vs[j], x)}) < i
            /\ i <= Cardinality({j \in 1..Len(vs) : ValueLess(vs[j], x) \/ vs[j] = x})]

Occurrences(vs, x) == Cardinality({j \in 1..Len(vs) : vs[j] = x})

\* one reduction over the cells of one column in one group; nulls are skipped
AggValue(f, vals) ==
    LET nn == SelectSeq(vals, LAMBDA v : ~IsNull(v))
        n == Len(nn)
        sorted == SortedVals(nn)
    IN CASE f = "count" -> N(n)
         [] f = "nunique" -> N(Cardinality(Range(nn)))
         [] f = "sum" -> SumQ(nn)
         [] f = "mean" -> IF n = 0 THEN NaN ELSE LET s == SumQ(nn) IN Q(s[2], s[3] * n)
         [] f = "median" ->
                IF n = 0 THEN NaN
                ELSE IF n % 2 = 1 THEN sorted[(n + 1) \div 2]
                ELSE LET s == AddQ(sorted[n \div 2], sorted[(n \div 2) + 1])
                     IN Q(s[2], s[3] * 2)
         [] f = "min" -> IF n = 0 THEN NaN ELSE sorted[1]
         [] f = "max" -> IF n = 0 THEN NaN ELSE sorted[n]
         [] f = "mode" ->
                \* _mode_series: the first of the sorted most frequent values
                IF n = 0 THEN NaN
                ELSE LET best == {x \in Range(nn) :
                                    \A y \in Range(nn) : Occurrences(nn, y) <= Occurrences(nn, x)}
                     IN CHOOSE x \in best : \A y \in best : ~ValueLess(y, x)

AggKind(df, col, f) ==
    IF f \in {"count", "nunique"} THEN "num"
    ELSE IF f = "mode" THEN "object"
    ELSE KindOf(df, col)

\* the (column, function) pairs of agg_map in result order
AggPairs(amap) ==
    Flatten([i \in 1..Len(amap) |->
                [j \in 1..Len(amap[i][2]) |-> <<amap[i][1], amap[i][2][j]>>]])

GroupKey(df, group_cols, r) == [g \in 1..Len(group_cols) |-> r[ColPos(df, group_cols[g])]]

\* a groupby without dropna=False: the rows with a null key are left out
groupby_agg_dropna(df, group_cols, amap) ==
    LET keyset == {GroupKey(df, group_cols, df.rows[i]) : i \in 1..Len(df.rows)}
        keys == SortedKeys({k \in keyset : \A g \in 1..Len(k) : ~IsNull(k[g])})
        pairs == AggPairs(amap)
        members(k) == SelectSeq(df.rows, LAMBDA r : GroupKey(df, group_cols, r) = k)
        cell(k, pr) ==
            LET ms == members(k)
            IN AggValue(pr[2], [i \in 1..Len(ms) |-> ms[i][ColPos(df, pr[1])]])
    IN [cols  |-> group_cols \o [j \in 1..Len(pairs) |-> Append(pairs[j][1], pairs[j][2])],
        kinds |-> [g \in 1..Len(group_cols) |-> KindOf(df, group_cols[g])]
                  \o [j \in 1..Len(pairs) |-> AggKind(df, pairs[j][1], pairs[j][2])],
        rows  |-> [i \in 1..Len(keys) |->
                      keys[i] \o [j \in 1..Len(pairs) |-> cell(keys[i], pairs[j])]]]

\* df.groupby(group_cols, dropna=False).agg(agg_map).reset_index() followed by
\* _flatten_agg_columns: one row per distinct key, keys sorted, a null key
\* last; the aggregate of column c by f is named c_f
groupby_agg(df, group_cols, amap) ==
    LET keys == SortedKeys({GroupKey(df, group_cols, df.rows[i]) : i \in 1..Len(df.rows)})
        pairs == AggPairs(amap)
        members(k) == SelectSeq(df.rows, LAMBDA r : GroupKey(df, group_cols, r) = k)
        cell(k, pr) ==
            LET ms == members(k)
            IN AggValue(pr[2], [i \in 1..Len(ms) |-> ms[i][ColPos(df, pr[1])]])
    IN [cols  |-> group_cols \o [j \in 1..Len(pairs) |-> Append(pairs[j][1], pairs[j][2])],
        kinds |-> [g \in 1..Len(group_cols) |-> KindOf(df, group_cols[g])]
                  \o [j \in 1..Len(pairs) |-> AggKind(df, pairs[j][1], pairs[j][2])],
        rows  |-> [i \in 1..Len(keys) |->
                      keys[i] \o [j \in 1..Len(pairs) |-> cell(keys[i], pairs[j])]]]

\* .agg raises SpecificationError ("Function names must be unique") when one
\* column's list names a function twice
agg_raises(amap) == \E i \in 1..Len(amap) : HasDuplicates(amap[i][2])

\* aggregate_data(df): group_cols and agg_cols are the answers of the two
\* column prompts, funcs_of the function lists typed per column. Every way
\* out that is not the aggregated frame returns df itself
aggregate_data(df, group_cols, agg_cols, funcs_of) ==
    IF group_cols = <<>> THEN df
    ELSE IF agg_cols = <<>> THEN df
    ELSE LET amap == agg_map(df, agg_cols, funcs_of)
         IN IF amap = <<>> THEN df
            ELSE IF agg_raises(amap) THEN df
            ELSE groupby_agg(df, group_cols, amap)

\* the message aggregate_data ends with: the "Skipping" branches (no
\* group-by columns, no columns to aggregate, no valid specs, the exception
\* of groupby/agg) or the aggregate shown, after the warning of line 298
\* when a typed function was not valid for its column and was left out
aggregate_outcome(df, group_cols, agg_cols, funcs_of) ==
    IF group_cols = <<>> THEN "no_group_cols"
    ELSE IF agg_cols = <<>> THEN "no_agg_cols"
    ELSE IF agg_map(df, agg_cols, funcs_of) = <<>> THEN "no_valid_specs"
    ELSE IF agg_raises(agg_map(df, agg_cols, funcs_of)) THEN "agg_exception"
    ELSE IF \E i \in 1..Len(agg_cols) :
              \E f \in Range(funcs_of[agg_cols[i]]) :
                 ~Contains(valid_funcs(df, agg_cols[i]), f)
    THEN "aggregated_with_skips"
    ELSE "aggregated"

\* the outcomes with which an operator reports that it did nothing
SkippedOutcomes ==
    {"no_text_columns", "no_column", "empty_input", "value_error",
     "no_group_cols", "no_agg_cols", "no_valid_specs", "agg_exception"}

----------------------------------------------------------------------------
(* The environment: the source_data directory and the answers typed        *)

Name == <<"name">>
Amt == <<"amt">>

\* source_data/data.csv: a text column with a null, a numeric column
DataCsv ==
    [cols  |-> <<Name, Amt>>,
     kinds |-> <<"object", "num">>,
     rows  |-> << <<S(<<" ", "a", "n">>), N(1)>>, <<NaN, N(2)>> >>]

\* source_data/data.txt: one text column
DataTxt ==
    [cols  |-> << <<"city">> >>,
     kinds |-> <<"object">>,
     rows  |-> << <<S(<<"b">>)>> >>]

\* source_data/empty.csv: a header line and no record
HeaderOnly == [cols |-> <<Name, Amt>>, kinds |-> <<"object", "object">>, rows |-> <<>>]

\* the listing of source_data: name, extension, and what reading it gives:
\* a frame, a parser error (raises), or the tables of a SQLite file
SourceFiles ==
    { [name |-> "data",  ext |-> ".csv",  raises |-> FALSE, frame |-> DataCsv,    tables |-> <<>>],
      [name |-> "data",  ext |-> ".txt",  raises |-> FALSE, frame |-> DataTxt,    tables |-> <<>>],
      [name |-> "empty", ext |-> ".csv",  raises |-> FALSE, frame |-> HeaderOnly, tables |-> <<>>],
      [name |-> "bad",   ext |-> ".csv",  raises |-> TRUE,  frame |-> NoColsDF,   tables |-> <<>>],
      [name |-> "notes", ext |-> ".json", raises |-> FALSE, frame |-> NoColsDF,   tables |-> <<>>],
      [name |-> "empty", ext |-> ".db",   raises |-> FALSE, frame |-> NoColsDF,   tables |-> <<>>] }

\* os.path.join('source_data', 'data.csv') of the scheduled run
DefaultFile == CHOOSE f \in SourceFiles : f.name = "data" /\ f.ext = ".csv"

\* column lists typed at the prompts of clean_names, filter_data and
\* aggregate_data (group-by columns, columns to aggregate)
CleanAnswers == { <<Name>> }
FilterAnswers == { <<Name>>, <<Amt>> }
GroupAnswers == { <<Name>> }
AggAnswers == { <<Amt>> }

\* texts typed at the filter's value prompt
FilterValues == { <<"2">>, <<"x">> }

\* function lists typed at the aggregate's per-column prompt
FuncLists == { <<>>, <<"sum", "sum">>, <<"mode">>, <<"sum", "mode">> }

\* answers of the casing prompt
CasingInputs == { "3" }

----------------------------------------------------------------------------
(* data_connector.py                                                       *)

\* load_source_data(file_path): present is os.path.exists(file_path),
\* table the 1-based number answered at the SQLite table prompt
load_source_data(f, present, table) ==
    IF ~present THEN NoColsDF
    ELSE IF f.ext \in {".db", ".sqlite"}
         THEN IF f.tables = <<>> THEN NoColsDF ELSE f.tables[table]
    ELSE IF f.ext \in {".csv", ".txt"}
         THEN IF f.raises THEN NoColsDF ELSE f.frame
    ELSE NoColsDF

\* df.to_csv(path, index=False): a header line and one line per row; a text
\* cell is written as its characters, a null as the empty field
CsvCell(v) == IF IsText(v) THEN v[2] ELSE IF IsNull(v) THEN <<>> ELSE <<v[2], v[3]>>

to_csv(df) ==
    [header |-> df.cols,
     lines  |-> [i \in 1..Len(df.rows) |-> [j \in 1..Len(df.cols) |-> CsvCell(df.rows[i][j])]]]

\* f"raw_load_{os.path.basename(file_path).split('.')[0]}"
stage_name(f) == <<"raw_load", f.name>>

\* os.path.join('staging_data', f"{stage_name}.csv")
staging_path(stage) == <<"staging_data", stage>>

\* os.path.join('data_warehouse', f"{final_name}_{now:%Y%m%d_%H%M%S}.csv")
final_path(final_name, t) == <<"data_warehouse", <<final_name, t>>>>

\* the directory contents after open(path, "w") and the write
write_file(fs, path, df) == (path :> to_csv(df)) @@ fs

\* the directory contents when df.to_csv(path) is interrupted after k of the
\* rows: the file was opened for writing and holds the header and k lines
interrupted_write(fs, path, df, k) ==
    (path :> [header |-> df.cols, lines |-> SubSeq(to_csv(df).lines, 1, k)]) @@ fs

save_staging_data(fs, df, stage) == write_file(fs, staging_path(stage), df)

save_final_data(fs, df, final_name, t) == write_file(fs, final_path(final_name, t), df)

----------------------------------------------------------------------------
(* main_cli.py: state                                                      *)

\* Python's None (also: no local bound)
None == [none |-> TRUE]

\* schedule.every(30).seconds
Interval == 30

\* bounds of the model: the clock's horizon, and per process lifetime the
\* scheduler sessions started, the files created in data_warehouse and the
\* operators applied in the transform menu
MaxTime == 31
MaxJobs == 2
MaxFinal == 1
MaxOps == 2

VARIABLES
    pc,          \* where control is: "menu" (main_cli at its prompt), "transform"
                 \* (pipeline_step_transform at its prompt), "sched" (schedule_task
                 \* about to call run_pending), "run_load" / "run_final"
                 \* (inside run_full_pipeline_scheduled, at its start / before
                 \* pipeline_step_final_load), "sleep" (before time.sleep(1)),
                 \* "exited" (main_cli returned), "crashed" (uncaught exception)
    global_df,   \* the module global: None or a frame
    df_current,  \* the local of pipeline_step_transform (None outside it)
    replayed,    \* history: the frame copied at the transform menu's entry
                 \* with the operators reported as applied so far applied to
                 \* it in order
    nops,        \* history: operators applied so far
    df_loaded,   \* history: what load_source_data returned to the last
                 \* pipeline_step_extract_load that called it
    op_said,     \* what the operator chosen last printed about its own outcome
    last,        \* the outcome reported for the last choice handled
    now,         \* the wall clock, in seconds
    jobs,        \* schedule's job list: the next_run of each registered job
    run_q,       \* the jobs run_pending still has to run in this call
    runs,        \* history: the clock at the start of each scheduled run of
                 \* the scheduler session in progress
    files,       \* the files of staging_data and data_warehouse, by path
    etl_pc,      \* etl_pipeline.py: where its process is: "init" (not running,
                 \* or in get_user_choice_and_initialize), "extract" (run_etl_pipeline
                 \* about to call extract_and_load_raw_data), "transform"
                 \* (transform_data before its DELETE), "truncated" (after the
                 \* DELETE), "inserted" (after the INSERT, before commit),
                 \* "sleep" (in the schedule loop between runs)
    source_table,  \* customer_data.db: the committed rows of raw_customers_staging
                 \* in rowid order, None while the table does not exist
    target_table,  \* the committed rows of dim_customers_final, None likewise
    txn,         \* the rows of dim_customers_final as the open transaction of
                 \* transform_data's connection sees them; None outside one
    target_before, \* history: target_table when transform_data was last called
    etl_last,    \* the outcome of the last step of etl_pipeline.py
    etl_clock    \* datetime.now() of etl_pipeline.py, in schedule intervals

\* the state of main_cli.py
cli_vars == <<pc, global_df, df_current, replayed, nops, df_loaded, op_said, last, now, jobs, run_q, runs, files>>

\* the state of etl_pipeline.py and of its database file
etl_vars == <<etl_pc, source_table, target_table, txn, target_before, etl_last, etl_clock>>

vars == <<pc, global_df, df_current, replayed, nops, df_loaded, op_said, last, now, jobs, run_q, runs, files,
          etl_pc, source_table, target_table, txn, target_before, etl_last, etl_clock>>

\* etl_pipeline.py not started yet and customer_data.db not created
InitEtl ==
    /\ etl_pc = "init"
    /\ source_table = None
    /\ target_table = None
    /\ txn = None
    /\ target_before = None
    /\ etl_last = "start"
    /\ etl_clock = 0

Init ==
    /\ pc = "menu"
    /\ global_df = None
    /\ df_current = None
    /\ replayed = None
    /\ nops = 0
    /\ df_loaded = None
    /\ op_said = "-"
    /\ last = "start"
    /\ now = 0
    /\ jobs = <<>>
    /\ run_q = <<>>
    /\ runs = <<>>
    /\ files = <<>>
    /\ InitEtl

\* "df is None or df.empty" (lines 67, 84, 139, 163)
none_or_empty(df) == IF df = None THEN TRUE ELSE df_empty(df)

WarehouseFiles(fs) == {p \in DOMAIN fs : p[1] = "data_warehouse"}

\* a final write creates a file only while data_warehouse holds fewer than MaxFinal
CanWrite(path) == path \in DOMAIN files \/ Cardinality(WarehouseFiles(files)) < MaxFinal

----------------------------------------------------------------------------
(* main_cli.py: pipeline_step_extract_load                                 *)

\* an extract-and-load that kept whatever was loaded, zero rows included
extract_load_keeps_empty(df) == df

\* an extract-and-load that never kept the loaded frame
extract_load_drops(df) == None

\* global_df after lines 65-74, given the loaded frame
extract_load_global(df) == IF none_or_empty(df) THEN None ELSE df

\* choice '1' of the main menu. choose_source_file answers 'skip' (or the
\* directory is empty): nothing happens. Otherwise the file is loaded; an
\* empty result clears global_df; else the frame is staged and kept. A write
\* error of save_staging_data is not caught anywhere up to main_cli
pipeline_step_extract_load ==
    /\ pc = "menu"
    /\ \/ /\ last' = "load_skipped"
          /\ UNCHANGED <<pc, global_df, df_loaded, files>>
       \/ \E f \in SourceFiles, present \in BOOLEAN :
            LET df == load_source_data(f, present, 1)
            IN /\ df_loaded' = df
               /\ IF none_or_empty(df)
                  THEN /\ global_df' = extract_load_global(df)
                       /\ last' = "load_failed"
                       /\ UNCHANGED <<pc, files>>
                  ELSE \E wr_ok \in BOOLEAN :
                         IF wr_ok
                         THEN /\ files' = save_staging_data(files, df, stage_name(f))
                              /\ global_df' = extract_load_global(df)
                              /\ last' = "load_ok"
                              /\ pc' = pc
                         ELSE /\ pc' = "crashed"
                              /\ last' = "staging_write_error"
                              /\ UNCHANGED <<global_df, files>>
    /\ UNCHANGED <<df_current, replayed, nops, op_said, now, jobs, run_q, runs>>
    /\ UNCHANGED etl_vars

----------------------------------------------------------------------------
(* main_cli.py: pipeline_step_transform                                    *)

\* lines 84-89: choice '2' of the main menu; refused without data
pipeline_step_transform ==
    /\ pc = "menu"
    /\ IF none_or_empty(global_df)
       THEN /\ last' = "transform_refused"
            /\ UNCHANGED <<pc, df_current, replayed>>
       ELSE /\ pc' = "transform"
            /\ df_current' = global_df
            /\ replayed' = global_df
            /\ last' = "transform_menu"
    /\ UNCHANGED <<global_df, nops, df_loaded, op_said, now, jobs, run_q, runs, files>>
    /\ UNCHANGED etl_vars

\* lines 126-132: which branch reports the operator's result
transform_report(df_after_transform, cur) ==
    IF df_after_transform # None /\ df_after_transform # cur THEN "applied"
    ELSE IF df_after_transform # None THEN "no_change"
    ELSE "op_failed"

\* a loop tail that never took the operator's result
transform_keeps_current(df_after_transform, cur) == cur

\* lines 126-127: df_current after the operator returned
transform_keep(df_after_transform, cur) ==
    IF transform_report(df_after_transform, cur) = "applied" THEN df_after_transform ELSE cur

\* the tail of one loop iteration for the choices '1', '2', '3':
\* df_after_transform is what the operator returned for df_current,
\* replay_after what it returns for the replayed frame
TransformStep(df_after_transform, replay_after, said) ==
    /\ nops < MaxOps
    /\ op_said' = said
    /\ df_current' = transform_keep(df_after_transform, df_current)
    /\ replayed' = IF transform_report(df_after_transform, df_current) = "applied"
                   THEN replay_after ELSE replayed
    /\ last' = transform_report(df_after_transform, df_current)
    /\ nops' = nops + 1
    /\ UNCHANGED <<pc, global_df, df_loaded, now, jobs, run_q, runs, files>>

\* choice '1' of the transform menu
TransformClean ==
    /\ pc = "transform"
    /\ \E selected \in prompt_select_columns(str_cols(df_current), TRUE, CleanAnswers),
          casing_inp \in CasingInputs :
         TransformStep(clean_names(df_current, FALSE, selected, casing_inp),
                       clean_names(replayed, FALSE, selected, casing_inp),
                       clean_outcome(df_current, FALSE, selected))
    /\ UNCHANGED etl_vars

\* choice '2' of the transform menu
TransformFilter ==
    /\ pc = "transform"
    /\ \E col_list \in prompt_select_columns(df_current.cols, FALSE, FilterAnswers),
          value \in FilterValues :
         TransformStep(filter_data(df_current, col_list, value),
                       filter_data(replayed, col_list, value),
                       filter_outcome(df_current, col_list, value))
    /\ UNCHANGED etl_vars

\* choice '3' of the transform menu
TransformAggregate ==
    /\ pc = "transform"
    /\ \E group_cols \in prompt_select_columns(likely_groupers(df_current), TRUE, GroupAnswers),
          agg_cols \in prompt_select_columns(ordered_candidates(df_current), TRUE, AggAnswers) :
         \E funcs_of \in [Range(agg_cols) -> FuncLists] :
            TransformStep(aggregate_data(df_current, group_cols, agg_cols, funcs_of),
                          aggregate_data(replayed, group_cols, agg_cols, funcs_of),
                          aggregate_outcome(df_current, group_cols, agg_cols, funcs_of))
    /\ UNCHANGED etl_vars

\* lines 112-115: choice '4' commits the in-progress frame
finish_global(gdf, cur) == cur

TransformFinish ==
    /\ pc = "transform"
    /\ global_df' = finish_global(global_df, df_current)
    /\ pc' = "menu"
    /\ last' = "finish"
    /\ df_current' = None
    /\ replayed' = None
    /\ UNCHANGED <<nops, df_loaded, op_said, now, jobs, run_q, runs, files>>
    /\ UNCHANGED etl_vars

\* lines 116-118 and 122-124: choice '5' (view) and any other text print
\* and go round the loop
TransformViewOrInvalid ==
    /\ pc = "transform"
    /\ UNCHANGED vars
    /\ UNCHANGED etl_vars

\* a Discard that cleared the global
discard_clears(gdf, cur) == None

\* lines 119-121: choice '6' returns; global_df after it
discard_global(gdf, cur) == gdf

TransformDiscard ==
    /\ pc = "transform"
    /\ global_df' = discard_global(global_df, df_current)
    /\ pc' = "menu"
    /\ last' = "discard"
    /\ df_current' = None
    /\ replayed' = None
    /\ UNCHANGED <<nops, df_loaded, op_said, now, jobs, run_q, runs, files>>
    /\ UNCHANGED etl_vars

----------------------------------------------------------------------------
(* main_cli.py: pipeline_step_final_load                                   *)

\* a guard of the final load that only looked for a missing table
final_load_refused_none_only(gdf) == gdf = None

\* line 139: the phase is refused
final_load_refused(gdf) == none_or_empty(gdf)

\* a final load that cleared the global before writing
final_load_clears_first(gdf, fs, t, wr_ok) ==
    IF none_or_empty(gdf)
    THEN [result |-> "final_refused", global_df |-> gdf, files |-> fs]
    ELSE IF wr_ok
    THEN [result |-> "final_ok", global_df |-> None,
          files |-> save_final_data(fs, gdf, "FINAL_ANALYTICS", t)]
    ELSE [result |-> "final_write_error", global_df |-> None, files |-> fs]

\* a final load that kept the table after writing it
final_load_keeps_table(gdf, fs, t, wr_ok) ==
    IF none_or_empty(gdf)
    THEN [result |-> "final_refused", global_df |-> gdf, files |-> fs]
    ELSE IF wr_ok
    THEN [result |-> "final_ok", global_df |-> gdf,
          files |-> save_final_data(fs, gdf, "FINAL_ANALYTICS", t)]
    ELSE [result |-> "final_write_error", global_df |-> gdf, files |-> fs]

\* lines 139-147 with the state passed in: the outcome, global_df and the
\* files afterwards. wr_ok: to_csv did not raise
final_load(gdf, fs, t, wr_ok) ==
    IF final_load_refused(gdf)
    THEN [result |-> "final_refused", global_df |-> gdf, files |-> fs]
    ELSE IF wr_ok
    THEN [result |-> "final_ok", global_df |-> None,
          files |-> save_final_data(fs, gdf, "FINAL_ANALYTICS", t)]
    ELSE [result |-> "final_write_error", global_df |-> gdf, files |-> fs]

\* the inputs of a final load that the model explores
FinalLoadInputs ==
    IF final_load_refused(global_df) THEN {TRUE}
    ELSE IF CanWrite(final_path("FINAL_ANALYTICS", now)) THEN BOOLEAN
    ELSE {FALSE}

\* choice '3' of the main menu; a write error is not caught up to main_cli
pipeline_step_final_load ==
    /\ pc = "menu"
    /\ \E wr_ok \in FinalLoadInputs :
         LET r == final_load(global_df, files, now, wr_ok)
         IN /\ global_df' = r.global_df
            /\ files' = r.files
            /\ last' = r.result
            /\ pc' = IF r.result = "final_write_error" THEN "crashed" ELSE pc
    /\ UNCHANGED <<df_current, replayed, nops, df_loaded, op_said, now, jobs, run_q, runs>>
    /\ UNCHANGED etl_vars

----------------------------------------------------------------------------
(* main_cli.py: schedule_task and run_full_pipeline_scheduled              *)

\* schedule.every(30).seconds.do(job): a job is appended to the default
\* scheduler's list, first due one interval from now; the list is never cleared
every_do(js, t) == Append(js, t + Interval)

\* choice '4' of the main menu: lines 187-193
schedule_task ==
    /\ pc = "menu"
    /\ Len(jobs) < MaxJobs
    /\ jobs' = every_do(jobs, now)
    /\ pc' = "sched"
    /\ last' = "scheduler_started"
    /\ runs' = <<>>
    /\ UNCHANGED <<global_df, df_current, replayed, nops, df_loaded, op_said, now, run_q, files>>
    /\ UNCHANGED etl_vars

\* the jobs run_pending runs: those with next_run <= now, by next_run
runnable_jobs(js, t) ==
    LET due == {i \in 1..Len(js) : js[i] <= t}
        before(a, b) == js[a] < js[b] \/ (js[a] = js[b] /\ a < b)
    IN [i \in 1..Cardinality(due) |->
           CHOOSE x \in due : Cardinality({y \in due : before(y, x)}) = i - 1]

\* line 195: schedule.run_pending() picks the due jobs
run_pending ==
    /\ pc = "sched"
    /\ run_q' = runnable_jobs(jobs, now)
    /\ pc' = IF run_q' = <<>> THEN "sleep" ELSE "run_load"
    /\ UNCHANGED <<global_df, df_current, replayed, nops, df_loaded, op_said, last, now, jobs, runs, files>>
    /\ UNCHANGED etl_vars

MinOf(set) == CHOOSE x \in set : \A y \in set : x <= y

\* the clock when the loop next finds a job due: after one time.sleep(1), or
\* after the further iterations that find nothing due and only sleep
wake_time(js, t) == IF MinOf(Range(js)) > t + 1 THEN MinOf(Range(js)) ELSE t + 1

\* line 196: time.sleep(1), with the idle iterations that follow it
sleep ==
    /\ pc = "sleep"
    /\ wake_time(jobs, now) <= MaxTime
    /\ now' = wake_time(jobs, now)
    /\ pc' = "sched"
    /\ UNCHANGED <<global_df, df_current, replayed, nops, df_loaded, op_said, last, jobs, run_q, runs, files>>
    /\ UNCHANGED etl_vars

\* Job.run after the job function returned: next_run = now + interval
job_returned(js, q, t) == [js EXCEPT ![Head(q)] = t + Interval]

\* run_pending goes on with its next job or returns to the loop
AfterJob ==
    /\ jobs' = job_returned(jobs, run_q, now)
    /\ run_q' = Tail(run_q)
    /\ pc' = IF Tail(run_q) = <<>> THEN "sleep" ELSE "run_load"

\* lines 169-172: the automated clean and the NaN filter on 'name'
scheduled_transform(df) ==
    LET cleaned == clean_names(df, TRUE, <<>>, "")
    IN IF Contains(cleaned.cols, Name) THEN dropna(cleaned, Name) ELSE cleaned

\* run_full_pipeline_scheduled, lines 152-175: exists is the os.path.exists
\* of line 156, present the one inside load_source_data
run_full_pipeline_scheduled_load ==
    /\ pc = "run_load"
    /\ runs' = Append(runs, now)
    /\ \E exists \in BOOLEAN, present \in BOOLEAN :
         LET df_scheduled == load_source_data(DefaultFile, present, 1)
         IN IF ~exists
            THEN /\ last' = "scheduled_skipped"
                 /\ AfterJob
                 /\ UNCHANGED global_df
            ELSE IF none_or_empty(df_scheduled)
            THEN /\ last' = "scheduled_halted_at_load"
                 /\ AfterJob
                 /\ UNCHANGED global_df
            ELSE /\ global_df' = scheduled_transform(df_scheduled)
                 /\ pc' = "run_final"
                 /\ last' = "scheduled_transformed"
                 /\ UNCHANGED <<jobs, run_q>>
    /\ UNCHANGED <<df_current, replayed, nops, df_loaded, op_said, now, files>>
    /\ UNCHANGED etl_vars

\* run_full_pipeline_scheduled, lines 177-183: the final load of the run; a
\* write error leaves the job function, run_pending, schedule_task and
\* main_cli, none of which catches it
run_full_pipeline_scheduled_final ==
    /\ pc = "run_final"
    /\ \E wr_ok \in FinalLoadInputs :
         LET r == final_load(global_df, files, now, wr_ok)
         IN /\ global_df' = r.global_df
            /\ files' = r.files
            /\ IF r.result = "final_write_error"
               THEN /\ pc' = "crashed"
                    /\ last' = "final_write_error"
                    /\ UNCHANGED <<jobs, run_q>>
               ELSE /\ last' = IF r.result = "final_ok" THEN "scheduled_complete"
                               ELSE "scheduled_halted_at_final"
                    /\ AfterJob
    /\ UNCHANGED <<df_current, replayed, nops, df_loaded, op_said, now, runs>>
    /\ UNCHANGED etl_vars

\* a scheduler that started a job falling due while another run is between
\* its transform and its final load
run_elapse_overlapping ==
    /\ pc \in {"run_load", "run_final"}
    /\ now < MaxTime
    /\ now' = now + 1
    /\ IF pc = "run_final" /\ \E j \in 1..Len(jobs) : j # Head(run_q) /\ jobs[j] <= now'
       THEN /\ runs' = Append(runs, now')
            /\ global_df' = scheduled_transform(load_source_data(DefaultFile, TRUE, 1))
       ELSE UNCHANGED <<runs, global_df>>
    /\ UNCHANGED <<pc, df_current, replayed, nops, df_loaded, op_said, last, jobs, run_q, files>>
    /\ UNCHANGED etl_vars

\* a second of wall-clock time passing while a scheduled run executes
run_elapse ==
    /\ pc \in {"run_load", "run_final"}
    /\ now < MaxTime
    /\ now' = now + 1
    /\ UNCHANGED <<pc, global_df, df_current, replayed, nops, df_loaded, op_said, last, jobs, run_q, runs, files>>
    /\ UNCHANGED etl_vars

\* lines 197-198: Ctrl+C anywhere inside the loop ends schedule_task; an
\* interrupted job keeps its next_run. Inside df.to_csv of the run's final
\* load the file has been opened and is left with the lines written so far
KeyboardInterrupt ==
    /\ pc \in {"sched", "sleep", "run_load", "run_final"}
    /\ pc' = "menu"
    /\ run_q' = <<>>
    /\ last' = "scheduler_stopped"
    /\ runs' = <<>>
    /\ \/ UNCHANGED files
       \/ /\ pc = "run_final"
          /\ ~final_load_refused(global_df)
          /\ CanWrite(final_path("FINAL_ANALYTICS", now))
          /\ \E k \in 0..(Len(global_df.rows) - 1) :
               files' = interrupted_write(files, final_path("FINAL_ANALYTICS", now),
                                          global_df, k)
    /\ UNCHANGED <<global_df, df_current, replayed, nops, df_loaded, op_said, now, jobs>>
    /\ UNCHANGED etl_vars

----------------------------------------------------------------------------
(* main_cli.py: main_cli                                                   *)

\* lines 233-237 and 241-242: choice '5' (view) and any other text print
\* and go round the loop
MenuViewOrInvalid ==
    /\ pc = "menu"
    /\ UNCHANGED vars
    /\ UNCHANGED etl_vars

\* lines 238-240: choice '6'
MenuExit ==
    /\ pc = "menu"
    /\ pc' = "exited"
    /\ last' = "exit"
    /\ UNCHANGED <<global_df, df_current, replayed, nops, df_loaded, op_said, now, jobs, run_q, runs, files>>
    /\ UNCHANGED etl_vars

\* a second of wall-clock time passing with main_cli at its prompt;
\* explored while a job registered afterwards would still run before MaxTime
menu_wait ==
    /\ pc = "menu"
    /\ now + Interval < MaxTime
    /\ now' = now + 1
    /\ UNCHANGED <<pc, global_df, df_current, replayed, nops, df_loaded, op_said, last, jobs, run_q, runs, files>>
    /\ UNCHANGED etl_vars

Next ==
    \/ pipeline_step_extract_load
    \/ pipeline_step_transform
    \/ TransformClean
    \/ TransformFilter
    \/ TransformAggregate
    \/ TransformFinish
    \/ TransformViewOrInvalid
    \/ TransformDiscard
    \/ pipeline_step_final_load
    \/ schedule_task
    \/ run_pending
    \/ sleep
    \/ run_full_pipeline_scheduled_load
    \/ run_full_pipeline_scheduled_final
    \/ run_elapse
    \/ KeyboardInterrupt
    \/ MenuViewOrInvalid
    \/ MenuExit
    \/ menu_wait

\* every interleaving of the menu choices and the scheduler
Spec == Init /\ [][Next]_vars

\* The sessions in which the operator works through the menus and never
\* starts the scheduler (main menu choices 1, 2, 3, 5, 6)
NextMenu ==
    \/ pipeline_step_extract_load
    \/ pipeline_step_transform
    \/ TransformClean
    \/ TransformFilter
    \/ TransformAggregate
    \/ TransformFinish
    \/ TransformViewOrInvalid
    \/ TransformDiscard
    \/ pipeline_step_final_load
    \/ MenuViewOrInvalid
    \/ MenuExit
    \/ menu_wait

SpecMenu == Init /\ [][NextMenu]_vars

\* The sessions in which the scheduler is used (main menu choice 4) and the
\* transform menu is only entered, viewed and left (Finish, Discard)
NextSched ==
    \/ pipeline_step_extract_load
    \/ pipeline_step_transform
    \/ TransformFinish
    \/ TransformViewOrInvalid
    \/ TransformDiscard
    \/ pipeline_step_final_load
    \/ schedule_task
    \/ run_pending
    \/ sleep
    \/ run_full_pipeline_scheduled_load
    \/ run_full_pipeline_scheduled_final
    \/ run_elapse
    \/ KeyboardInterrupt
    \/ MenuViewOrInvalid
    \/ MenuExit
    \/ menu_wait

SpecSched == Init /\ [][NextSched]_vars

----------------------------------------------------------------------------
(* The operators on every small table                                      *)

\* bound of the tables drawn below: their number of rows
MaxRows == 2

\* the cells a loaded file gives the columns name and city (text) and amt
\* (number)
NameCells == {S(<<" ", "a", "n">>), S(<<"a", " ", " ", "N">>), NaN}
AmtCells == {N(2), NaN}
CityCells == {S(<<"b", " ", "A">>), NaN}

\* the frames pd.read_csv can return for a file with the columns name, amt
\* or with the columns name, city, and 1..MaxRows records
Tables ==
    {[cols |-> <<Name, Amt>>, kinds |-> <<"object", "num">>, rows |-> r] :
        r \in UNION {[1..k -> NameCells \X AmtCells] : k \in 1..MaxRows}}
    \cup
    {[cols |-> <<Name, <<"city">>>>, kinds |-> <<"object", "object">>, rows |-> r] :
        r \in UNION {[1..k -> NameCells \X CityCells] : k \in 1..MaxRows}}

\* the transform menu just entered (line 89) on any of these tables, loaded
\* and staged by pipeline_step_extract_load
InitOps ==
    /\ global_df \in Tables
    /\ pc = "transform"
    /\ df_current = global_df
    /\ replayed = global_df
    /\ df_loaded = global_df
    /\ nops = 0
    /\ op_said = "-"
    /\ last = "transform_menu"
    /\ now = 0
    /\ jobs = <<>>
    /\ run_q = <<>>
    /\ runs = <<>>
    /\ files = save_staging_data(<<>>, global_df, stage_name(DefaultFile))
    /\ InitEtl

\* the operators applied from the menu
NextOps ==
    \/ TransformClean
    \/ TransformFilter
    \/ TransformAggregate

SpecOps == InitOps /\ [][NextOps]_vars

----------------------------------------------------------------------------
(* etl_pipeline.py: the SQLite pipeline on customer_data.db                *)

\* bounds: the rows an upstream loader leaves in the staging table, and the
\* schedule intervals the clock runs through
MaxStaging == 2
MaxEtlClock == 1

\* lines 23-30; a row is <<id, name, segment, state, city>>
SAMPLE_DATA ==
    << <<"CG-12520", "Claire Gute", "Consumer", "Kentucky", "Henderson">>,
       <<"DV-13045", "Darrin Van Huff", "Corporate", "California", "Los Angeles">>,
       <<"SO-20335", "Sean O'Donnell", "Consumer", "Florida", "Fort Lauderdale">>,
       <<"BH-11710", "Brosina Hoffman", "Consumer", "California", "Los Angeles">>,
       <<"SG-19345", "Samantha Green", "Corporate", "California", "Los Angeles">>,
       <<"SG-19345", "Samantha Green", "Corporate", "California", "Los Angeles">> >>

\* a table that exists, by its rows in rowid order
TableOf(rows) == [rows |-> rows]

\* the id column of some rows
IdsOf(rows) == [i \in 1..Len(rows) |-> rows[i][1]]

\* the rows another writer of the database file leaves in the staging table
\* (id TEXT NOT NULL, lines 82-88): rows of the sample, and one more record
\* with the id of a sample row under another name
UpstreamRows ==
    { SAMPLE_DATA[1], SAMPLE_DATA[5],
      <<"SG-19345", "Sam Green", "Corporate", "California", "Los Angeles">> }

UpstreamTables ==
    {TableOf(r) : r \in UNION {[1..k -> UpstreamRows] : k \in 0..MaxStaging}}

\* line 196 (os.path.exists(DB_NAME)): the file exists once its tables do
db_exists == source_table # None

\* lines 73-112: the staging table is dropped, created and filled with the
\* sample; the target table is created only if it does not exist
create_sample_database(target) ==
    [source |-> TableOf(SAMPLE_DATA),
     target |-> IF target = None THEN TableOf(<<>>) ELSE target]

\* a DELETE that removed nothing
delete_nothing(tbl) == tbl

\* line 184: DELETE FROM dim_customers_final
delete_from(tbl) == TableOf(<<>>)

\* INSERT OR REPLACE of one row into a table whose first column is the
\* PRIMARY KEY (lines 102-109, 171): a row with the same id is deleted first
insert_or_replace(tbl, row) ==
    TableOf(Append(SelectSeq(tbl.rows, LAMBDA r : r[1] # row[1]), row))

\* GROUP BY id (line 180): the distinct ids, here in order of first occurrence
\* (the order of the groups is not observable through the rows of the target)
RECURSIVE group_by_id(_)
group_by_id(ids) ==
    IF ids = <<>> THEN <<>>
    ELSE LET r == group_by_id(SubSeq(ids, 1, Len(ids) - 1))
             x == ids[Len(ids)]
         IN IF \E i \in 1..Len(r) : r[i] = x THEN r ELSE Append(r, x)

\* the bare columns name, segment, state, city of a group come from one of
\* its rows, which one is SQLite's choice: every way to choose a row per id
group_picks(src) ==
    {f \in [Range(IdsOf(src.rows)) -> 1..Len(src.rows)] :
        \A k \in DOMAIN f : src.rows[f[k]][1] = k}

\* lines 170-181, 187: the INSERT OR REPLACE ... SELECT ... GROUP BY id, each
\* group's row stamped with last_updated
RECURSIVE insert_groups(_, _, _, _, _)
insert_groups(tbl, src, pick, stamp, groups) ==
    IF groups = <<>> THEN tbl
    ELSE insert_groups(
             insert_or_replace(tbl, Append(src.rows[pick[Head(groups)]], stamp)),
             src, pick, stamp, Tail(groups))

insert_select(tbl, src, pick, stamp) ==
    insert_groups(tbl, src, pick, stamp, group_by_id(IdsOf(src.rows)))

\* lines 192-225: database file missing, or choice '2': the sample database
\* is created; choice '1' keeps the file. Then run_etl_pipeline is called
get_user_choice_and_initialize ==
    /\ etl_pc = "init"
    /\ \E choice \in {"1", "2"} :
         IF ~db_exists \/ choice = "2"
         THEN /\ source_table' = create_sample_database(target_table).source
              /\ target_table' = create_sample_database(target_table).target
              /\ etl_last' = "initialized"
         ELSE /\ UNCHANGED <<source_table, target_table>>
              /\ etl_last' = "existing"
    /\ etl_pc' = "extract"
    /\ UNCHANGED <<txn, target_before, etl_clock>>
    /\ UNCHANGED cli_vars

\* lines 115-141: an empty or missing staging table is filled with the sample
extract_and_load_raw_data ==
    /\ etl_pc = "extract"
    /\ IF (IF source_table = None THEN TRUE ELSE Len(source_table.rows) = 0)
       THEN /\ source_table' = create_sample_database(target_table).source
            /\ target_table' = create_sample_database(target_table).target
            /\ etl_last' = "reloaded"
       ELSE /\ UNCHANGED <<source_table, target_table>>
            /\ etl_last' = "extracted"
    /\ etl_pc' = "transform"
    /\ UNCHANGED <<txn, target_before, etl_clock>>
    /\ UNCHANGED cli_vars

\* transform_data, lines 150-184: the connection is opened, the schema check
\* leaves the rows alone, and the DELETE opens a transaction in which the
\* target is empty. ok: the DELETE did not raise (it raises without the
\* table, or when another connection holds the lock); the exception is
\* logged (lines 194-195) and the connection closed
transform_truncate ==
    /\ etl_pc = "transform"
    /\ target_before' = target_table
    /\ \E ok \in BOOLEAN :
         IF ok /\ target_table # None
         THEN /\ txn' = delete_from(target_table)
              /\ etl_pc' = "truncated"
              /\ etl_last' = "truncated"
         ELSE /\ txn' = None
              /\ etl_pc' = "sleep"
              /\ etl_last' = "transform_failed_before_truncate"
    /\ UNCHANGED <<source_table, target_table, etl_clock>>
    /\ UNCHANGED cli_vars

\* transform_data, line 187: the INSERT within the transaction. When it
\* raises, the exception is logged and the connection closed without a
\* commit (lines 194-197), which rolls the transaction back
transform_insert ==
    /\ etl_pc = "truncated"
    /\ \E ok \in BOOLEAN :
         IF ok /\ source_table # None
         THEN /\ \E pick \in group_picks(source_table) :
                   txn' = insert_select(txn, source_table, pick, etl_clock)
              /\ etl_pc' = "inserted"
              /\ etl_last' = "inserted"
         ELSE /\ txn' = None
              /\ etl_pc' = "sleep"
              /\ etl_last' = "transform_failed"
    /\ UNCHANGED <<source_table, target_table, target_before, etl_clock>>
    /\ UNCHANGED cli_vars

\* transform_data, lines 189-197: commit, display, close; a commit that
\* raises leaves the transaction to the close, which rolls it back
transform_commit ==
    /\ etl_pc = "inserted"
    /\ \E ok \in BOOLEAN :
         IF ok
         THEN /\ target_table' = txn
              /\ etl_last' = "transform_ok"
         ELSE /\ target_table' = target_table
              /\ etl_last' = "transform_failed"
    /\ txn' = None
    /\ etl_pc' = "sleep"
    /\ UNCHANGED <<source_table, target_before, etl_clock>>
    /\ UNCHANGED cli_vars

\* lines 272-278: the schedule loop runs run_etl_pipeline again an interval
\* later
etl_run_pending ==
    /\ etl_pc = "sleep"
    /\ etl_clock < MaxEtlClock
    /\ etl_clock' = etl_clock + 1
    /\ etl_pc' = "extract"
    /\ etl_last' = "run_scheduled"
    /\ UNCHANGED <<source_table, target_table, txn, target_before>>
    /\ UNCHANGED cli_vars

\* another writer of customer_data.db replaces the rows of the staging table;
\* it waits while transform_data's transaction holds the write lock
upstream_load ==
    /\ etl_pc \notin {"truncated", "inserted"}
    /\ source_table # None
    /\ \E t \in UpstreamTables :
         /\ t # source_table
         /\ source_table' = t
    /\ etl_last' = "staging_changed"
    /\ UNCHANGED <<etl_pc, target_table, txn, target_before, etl_clock>>
    /\ UNCHANGED cli_vars

\* Ctrl+C: in the schedule loop it is caught at line 279 and the script ends;
\* inside transform_data it passes `except Exception`, the finally clause
\* closes the connection and the open transaction is rolled back. The script
\* can be started again on the database file it left
etl_KeyboardInterrupt ==
    /\ etl_pc # "init"
    /\ txn' = None
    /\ etl_pc' = "init"
    /\ etl_last' = IF etl_pc \in {"truncated", "inserted"}
                   THEN "transform_interrupted" ELSE "stopped"
    /\ UNCHANGED <<source_table, target_table, target_before, etl_clock>>
    /\ UNCHANGED cli_vars

\* etl_pipeline.py, run and stopped and run again, beside its upstream writer
NextEtl ==
    \/ get_user_choice_and_initialize
    \/ extract_and_load_raw_data
    \/ transform_truncate
    \/ transform_insert
    \/ transform_commit
    \/ etl_run_pending
    \/ upstream_load
    \/ etl_KeyboardInterrupt

SpecEtl == Init /\ [][NextEtl]_vars

----------------------------------------------------------------------------
(* Properties                                                              *)

\* C1: in the transform menu, an operator that reports a failure or a skip
\* (the filter's unparsable numeric value, the aggregate without a valid
\* spec or with a group-by exception, a 'skip' at a column prompt) leaves
\* df_current and global_df as they were, and the menu goes on prompting
C1_FailedOperatorKeepsState ==
    [][(pc = "transform" /\ nops' = nops + 1 /\ op_said' \in SkippedOutcomes)
         => /\ df_current' = df_current
            /\ global_df' = global_df
            /\ pc' = "transform"]_vars

\* C1 happens: the filter was given a value float() rejects for a numeric
\* column, and the menu is still prompting
C1_Witness ==
    /\ pc = "transform"
    /\ op_said = "value_error"
    /\ last = "no_change"

\* C2: a failed load in pipeline_step_extract_load (missing file,
\* unsupported extension, SQLite file without tables, loader exception)
\* leaves global_df unchanged, also when a table is already loaded
C2_FailedLoadKeepsTable ==
    [][(pc = "menu" /\ last' = "load_failed") => global_df' = global_df]_vars

\* C3: no step of a scheduled run, whatever fails in it (the write of
\* save_final_data included), takes control out of schedule_task's loop
\* other than the user's interrupt
C3_RunFailureReturnsToLoop ==
    [][(pc \in {"run_load", "run_final"})
         => (pc' \in {"run_load", "run_final", "sleep", "menu"})]_vars

\* C4: from the main menu, whatever the choice and its outcome (a failed
\* write of the staging or of the final file included), main_cli prompts
\* again or has taken the Exit choice
C4_OnlyExitEndsMenuLoop ==
    [][(pc = "menu") => (pc' \in {"menu", "transform", "sched", "exited"})]_vars

C6_FinalLoadOfCommittedTable ==
    [][(pc = "menu" /\ last = "finish" /\ last' \in {"final_ok", "final_refused"})
         => /\ global_df' = None
            /\ final_path("FINAL_ANALYTICS", now) \in DOMAIN files'
            /\ files'[final_path("FINAL_ANALYTICS", now)] = to_csv(global_df)]_vars

\* C7: Finish makes global_df the in-progress table, which is the table
\* copied at the menu's entry with every operator reported as applied
\* applied to it in order; no other step of the transform menu changes
\* global_df
C7_FinishCommitsReplay ==
    [][(pc = "transform")
         => IF last' = "finish"
            THEN global_df' = df_current /\ df_current = replayed
            ELSE global_df' = global_df]_vars

\* C7 happens: two operators changed the table one after the other (the
\* filter on amt, then the clean of name) and Finish committed the result
C7_Witness ==
    /\ pc = "menu"
    /\ last = "finish"
    /\ nops = 2
    /\ global_df = clean_names(filter_data(DataCsv, <<Amt>>, <<"2">>), FALSE, <<Name>>, "3")
    /\ global_df # filter_data(DataCsv, <<Amt>>, <<"2">>)
    /\ global_df # clean_names(DataCsv, FALSE, <<Name>>, "3")

\* C8: within one scheduler session, any two starts of
\* run_full_pipeline_scheduled are at least one interval apart
C8_OncePerInterval ==
    \A i, j \in 1..Len(runs) : i < j => runs[j] - runs[i] >= Interval

\* C9: scheduled runs are serialized. A run starts only where run_pending
\* calls the job (never while another run or an interactive phase is in
\* progress), and while a run is between its transform and its final load
\* only that run's own final load changes global_df
C9_RunsSerialized ==
    [][/\ Len(runs') > Len(runs) => pc = "run_load"
       /\ (pc = "run_final" /\ global_df' # global_df) => last' = "scheduled_complete"]_vars

\* C9 happens: the job now running was already due when the previous run
\* started, and it started later, after that run had returned
C9_Witness ==
    /\ pc = "run_final"
    /\ Len(runs) = 2
    /\ runs[1] < runs[2]
    /\ Len(run_q) = 1
    /\ jobs[Head(run_q)] <= runs[1]

\* C10: no call of save_staging_data or save_final_data replaces the
\* contents of a file written by an earlier call
C10_NoOverwrite ==
    [][\A p \in DOMAIN files : p \in DOMAIN files' /\ files'[p] = files[p]]_vars

\* C11: when the write of save_staging_data (in pipeline_step_extract_load)
\* or of save_final_data (in pipeline_step_final_load) fails, global_df is
\* what it was before the phase: neither the newly loaded table nor None
C11_WriteFailureKeepsTable ==
    [][(pc # "crashed" /\ last' \in {"staging_write_error", "final_write_error"})
         => global_df' = global_df]_vars

\* C11 happens: the final write of a loaded table failed and the table is
\* still the working dataset
C11_Witness ==
    /\ pc = "crashed"
    /\ last = "final_write_error"
    /\ global_df = DataCsv

\* C12: the load, transform, finish, final-write sequence can be repeated.
\* Every completed final write leaves global_df None with no transform
\* session open, and a following successful load makes global_df exactly
\* the table read from the chosen file, whatever the earlier runs held
C12_RunsStartFresh ==
    [][/\ (last' = "final_ok") => (global_df' = None /\ df_current' = None)
       /\ (pc = "menu" /\ last' = "load_ok")
            => \E f \in SourceFiles : global_df' = load_source_data(f, TRUE, 1)]_vars

\* C12 happens: after a run that transformed data.csv and wrote it to the
\* warehouse, data.txt was loaded and is the whole working dataset
C12_Witness ==
    /\ pc = "menu"
    /\ last = "load_ok"
    /\ global_df = DataTxt
    /\ nops > 0
    /\ \E p \in WarehouseFiles(files) : files[p].header # DataTxt.cols

\* C13: an interrupt delivered while the scheduler loop is active (polling,
\* sleeping, or inside a scheduled run, its final write included) returns
\* control to the main menu and leaves no file of an unfinished write: the
\* files are those present before the interrupt
C13_InterruptLeavesNoPartialFile ==
    [][(pc \in {"sched", "sleep", "run_load", "run_final"} /\ last' = "scheduler_stopped")
         => (pc' = "menu" /\ files' = files)]_vars

\* C14: with no working dataset (global_df None), a failed load leaves
\* global_df None and a successful load makes global_df the table read
\* from the chosen file, staged under staging_data
C14_LoadFromIdle ==
    [][(pc = "menu" /\ global_df = None)
         => /\ (last' = "load_failed") => (global_df' = None /\ files' = files)
            /\ (last' = "load_ok")
                 => \E f \in SourceFiles :
                      /\ ~df_empty(load_source_data(f, TRUE, 1))
                      /\ global_df' = load_source_data(f, TRUE, 1)
                      /\ files'[staging_path(stage_name(f))] = to_csv(global_df')]_vars

\* C14 happens: the first load of the process succeeded on data.txt
C14_Witness ==
    /\ pc = "menu"
    /\ last = "load_ok"
    /\ global_df = DataTxt
    /\ DOMAIN files = {staging_path(stage_name(DefaultFile))}
    /\ nops = 0

\* C15: an operator application that fails on invalid input (a numeric
\* filter value float() rejects, an aggregation left without a valid
\* function, an exception of groupby/agg) is reported by the transform menu
\* on its failure branch (lines 131-132), never on its no-change branch
C15_FailureReportedAsFailure ==
    [][(pc = "transform" /\ nops' = nops + 1
          /\ op_said' \in {"value_error", "no_valid_specs", "agg_exception"})
         => last' = "op_failed"]_vars

\* C16: a load that succeeds structurally with zero rows (a header and no
\* record) is a successful load: pipeline_step_extract_load keeps the empty
\* table as global_df and does not take the path of a failed load
C16_ZeroRowLoadIsSuccess ==
    [][(pc = "menu" /\ last' \in {"load_ok", "load_failed"}
          /\ df_loaded' # None /\ df_loaded'.cols # <<>> /\ df_loaded'.rows = <<>>)
         => (last' = "load_ok" /\ global_df' = df_loaded')]_vars

\* C17: an aggregation whose spec names a function that is not valid for
\* the type of its column (mode on the numeric amt) fails and leaves the
\* table unchanged, also when the spec names valid functions as well; no
\* part of such a spec is applied
C17_IncompatibleSpecFails ==
    [][(pc = "transform" /\ nops' = nops + 1
          /\ op_said' \in {"no_valid_specs", "aggregated_with_skips"})
         => (df_current' = df_current /\ last' # "applied")]_vars

\* sub is full with some of its elements left out, the others in their order
RECURSIVE IsSubsequence(_, _)
IsSubsequence(sub, full) ==
    IF sub = <<>> THEN TRUE
    ELSE IF full = <<>> THEN FALSE
    ELSE IF Head(sub) = Head(full) THEN IsSubsequence(Tail(sub), Tail(full))
    ELSE IsSubsequence(sub, Tail(full))

\* values typed at the filter's prompt, matching and not, with blanks and
\* capitals, and the empty answer
FilterProbes ==
    {<<>>, <<"2">>, <<"x">>, <<"n", "a", "n">>, <<" ", "A", "N", " ">>,
     <<"a", " ", " ", "n">>, <<"<", "n", "a", ">">>}

\* C18: for every table, column and comparison value (and for a cancelled
\* column prompt), filter_data returns a table with the same columns in the
\* same order and with rows that are rows of the table, in their order
C18_FilterKeepsShape ==
    \A col_list \in {<<>>} \cup {<<c>> : c \in Range(df_current.cols)} :
       \A value \in FilterProbes :
          LET r == filter_data(df_current, col_list, value)
          IN /\ r.cols = df_current.cols
             /\ r.kinds = df_current.kinds
             /\ IsSubsequence(r.rows, df_current.rows)

\* C18 happens: the filter kept one of the two rows of the table
C18_Witness ==
    /\ nops = 1
    /\ op_said = "filtered"
    /\ last = "applied"
    /\ Len(global_df.rows) = 2
    /\ Len(df_current.rows) = 1
    /\ df_current.cols = global_df.cols

\* function lists typed per column that leave a valid aggregation spec
ValidFuncLists == {<<>>, <<"count">>, <<"nunique">>, <<"sum", "max">>, <<"mode">>}

\* the aggregation specs tried on a table: one or all of its grouping
\* candidates, one column to aggregate, one function list for it
AggProbes(df) ==
    {<<g, <<a>>, fl>> :
        g \in {<<c>> : c \in Range(likely_groupers(df))} \cup {likely_groupers(df)},
        a \in Range(ordered_candidates(df)),
        fl \in ValidFuncLists}

\* C19: for every table and every valid aggregation spec, aggregate_data
\* returns one row per distinct combination of group-key values present in
\* the table; the rows with a null grouping value form one group of their own
C19_OneRowPerGroup ==
    \A pr \in AggProbes(df_current) :
       LET group_cols == pr[1]
           funcs_of == [c \in Range(pr[2]) |-> pr[3]]
           r == aggregate_data(df_current, group_cols, pr[2], funcs_of)
           keys == {GroupKey(df_current, group_cols, df_current.rows[i]) :
                      i \in 1..Len(df_current.rows)}
       IN aggregate_outcome(df_current, group_cols, pr[2], funcs_of) = "aggregated"
            => /\ Len(r.rows) = Cardinality(keys)
               /\ {SubSeq(r.rows[i], 1, Len(group_cols)) : i \in 1..Len(r.rows)} = keys

\* C19 happens: a table of two rows, one with a null name, was grouped by
\* name into two rows, the null group among them
C19_Witness ==
    /\ nops = 1
    /\ op_said = "aggregated"
    /\ last = "applied"
    /\ Len(global_df.rows) = 2
    /\ \E i \in 1..2 : IsNull(global_df.rows[i][1])
    /\ Len(df_current.rows) = 2
    /\ \E i \in 1..2 : IsNull(df_current.rows[i][1])

\* the column selections of a clean: every non-empty list of distinct text
\* columns of the table, of length one or two
CleanProbes(df) ==
    {<<c>> : c \in Range(str_cols(df))}
    \cup ({<<c, d>> : c, d \in Range(str_cols(df))} \ {<<c, c>> : c \in Range(str_cols(df))})

\* answers of the casing prompt: title, lower, upper, and Enter for the default
CasingProbes == {"1", "2", "3", ""}

C21_MenuTableNeverEmpty ==
    pc = "menu" => IF global_df = None THEN TRUE ELSE ~df_empty(global_df)

\* a table object with no rows
zero_rows(df) == IF df = None THEN FALSE ELSE Len(df.rows) = 0

\* C21 (amended): global_df becomes a zero-row table only when Finish commits
\* an in-progress table (a filter emptied it) or when a scheduled run assigns
\* what its NaN filter kept; no load, Discard or final load makes it one
C21_ZeroRowsOnlyCommitted ==
    [][ (zero_rows(global_df') /\ ~zero_rows(global_df))
           => (last' \in {"finish", "scheduled_transformed"}) ]_vars

\* the main menu prompts with a zero-row table that Finish committed
C21_Witness ==
    /\ pc = "menu"
    /\ last = "finish"
    /\ zero_rows(global_df)
    /\ ~zero_rows(df_loaded)

\* C22: with global_df absent or empty, choosing the transform phase or the
\* final-load phase is refused: the main menu prompts again, the transform
\* menu is not entered, no file is written and global_df is unchanged; and a
\* file of data_warehouse is written only while global_df is a non-empty
\* table, and only a successful load puts a table where there was none
C22_PhasesGuardedByState ==
    [][ /\ (none_or_empty(global_df)
              /\ (pipeline_step_transform \/ pipeline_step_final_load))
           => (/\ last' \in {"transform_refused", "final_refused"}
               /\ pc' = "menu"
               /\ files' = files
               /\ global_df' = global_df
               /\ df_current' = df_current)
        /\ ([p \in WarehouseFiles(files') |-> files'[p]]
               # [p \in WarehouseFiles(files) |-> files[p]])
           => ~none_or_empty(global_df)
        /\ (global_df = None /\ global_df' # None)
           => last' \in {"load_ok", "scheduled_transformed"} ]_vars

\* the final load was refused for a zero-row table and wrote nothing
C22_Witness ==
    /\ pc = "menu"
    /\ last = "final_refused"
    /\ zero_rows(global_df)
    /\ WarehouseFiles(files) = {}

\* C23: after a successful transform_data the target table holds one row for
\* each distinct id of the staging table and no other rows: no id twice, the
\* same ids as the staging table, every row a staging row (rows of earlier
\* runs are gone); after a transform_data that failed or was interrupted
\* after the truncate, the committed target is the one from before the call
C23_TargetIsDedupedStaging ==
    /\ (etl_last = "transform_ok")
          => /\ ~HasDuplicates(IdsOf(target_table.rows))
             /\ Range(IdsOf(target_table.rows)) = Range(IdsOf(source_table.rows))
             /\ \A i \in 1..Len(target_table.rows) :
                   /\ SubSeq(target_table.rows[i], 1, 5) \in Range(source_table.rows)
                   /\ target_table.rows[i][6] = etl_clock
    /\ (etl_last \in {"transform_failed", "transform_interrupted"})
          => /\ target_table = target_before
             /\ txn = None

\* a successful transform of a staging table with a repeated id, over a
\* target that held a row whose id has left the staging table
C23_Witness ==
    /\ etl_last = "transform_ok"
    /\ HasDuplicates(IdsOf(source_table.rows))
    /\ \E i \in 1..Len(target_before.rows) :
          target_before.rows[i][1] \notin Range(IdsOf(source_table.rows))


====
